---- MODULE Spec2Model ----
(***************************************************************************)
(* Model of the TKey session manager: the Signer of internal/tkey/signer.go *)
(* (connect, disconnect, the idle-disconnect timer callback, closeNow, the  *)
(* signal handler installed by NewSigner) and the package-level facade      *)
(* (GetTkeyPubKey, Sign, getSigner and the cached existingSigner).          *)
(*                                                                         *)
(* Goroutines: NumThreads request goroutines calling the facade, one        *)
(* goroutine per fired time.AfterFunc timer, one signal goroutine per       *)
(* Signer.  A call into tkeyclient / tkeysign (the transport adapter) is    *)
(* not atomic: a goroutine whose position is one of the "in flight"         *)
(* positions has issued the call and not yet got its result; the result     *)
(* (success or failure) is chosen when the call returns.                    *)
(*                                                                         *)
(* Spec and FairSpec are the facade with concurrent callers and signals,    *)
(* SpecSeq the facade with one call at a time; SpecDirect adds users of the *)
(* exported Signer (NewSigner with any port and secret source, Signer.Sign  *)
(* with any crypto.SignerOpts).                                             *)
(***************************************************************************)
EXTENDS Integers, FiniteSets, Sequences, TLC

\* ---------------------------------------------------------------- bounds
NumThreads == 2      \* request goroutines calling the facade
MaxCalls   == 2      \* facade calls issued in one run (all goroutines together)
MaxSigners == 2      \* Signer objects NewSigner may allocate in one run
CountCap   == 2      \* the open / close counters saturate here

\* time.AfterFunc timers alive at once: every facade call arms at most two
\* (the inner and the outer deferred disconnect), so no slot is ever missing.
MaxTimers  == 2 * MaxCalls

Threads == 1..NumThreads
Signers == 1..MaxSigners
Timers  == 1..MaxTimers
Ops     == {"pub", "sign"}

VARIABLES
    th,               \* per request goroutine: position and locals
    callsLeft,        \* facade calls that may still be issued
    existingSigner,   \* the package variable; 0 is nil
    nSigners,         \* Signers allocated so far (1..nSigners exist)
    connected,        \* Signer.connected
    disconnectTimer,  \* Signer.disconnectTimer; 0 is nil
    mu,               \* Signer.mu: TRUE when locked
    topen,            \* the Signer's transport (s.tk) holds an open port
    tstate,           \* per timer: "free", "pending", "fired", "closing"
    towner,           \* per timer: the Signer whose callback it runs
    tstale,           \* per timer: a connect() of its Signer returned true after it was armed
    hstate,           \* per Signer: its signal goroutine
    sigSent,          \* the interrupt / termination signal was delivered
    exited,           \* os.Exit was called: the process is gone
    lastErr,          \* the facade call that returned last returned an error
    opens,            \* transport opens that succeeded (saturating)
    closes,           \* transport Close calls that returned (saturating)
    idleCloses,       \* Close calls since the last facade call started or ended
    unhealthy,        \* some adapter call failed or reported the wrong app
    fired,            \* some idle-disconnect timer has fired
    raced,            \* a timer fired, or its callback ran, during a facade call
    par,              \* facade calls the callers keep in progress at once (fixed)
    logging,          \* the errors that calls return are being logged (fixed)
    devPath,          \* Signer.devPath: "" asks connect() to detect the port
    enterUSS,         \* Signer.enterUSS
    fileUSS,          \* Signer.fileUSS: "" is no secret file
    errLog            \* the errors calls have returned, each with what had gone wrong

vars == <<th, callsLeft, existingSigner, nSigners, connected, disconnectTimer, mu,
          topen, tstate, towner, tstale, hstate, sigSent, exited, lastErr,
          opens, closes, idleCloses, unhealthy, fired, raced, par, logging,
          devPath, enterUSS, fileUSS, errLog>>

sessionVars == <<connected, disconnectTimer, mu, topen>>
timerVars   == <<tstate, towner, tstale>>
sigVars     == <<hstate, sigSent, exited>>
histVars    == <<opens, closes, idleCloses, unhealthy, fired, raced>>
configVars  == <<devPath, enterUSS, fileUSS>>

\* ------------------------------------------------------------- helpers
\* The counters and flags that record a run's history (opens .. raced, and
\* cold / did of a request goroutine) are kept for runs whose callers issue
\* one call at a time; with concurrent callers they stay at their initial
\* values, and no property of concurrent runs reads them.  The log of the
\* returned errors (errLog, and why / ev of a request goroutine) is kept in
\* the runs that start with logging set.
Recording == par = 1
Inc(n)     == IF Recording /\ n < CountCap THEN n + 1 ELSE n
Flag(b, e) == IF Recording THEN (b \/ e) ELSE b
Note(d, x) == IF Recording THEN d \cup {x} ELSE d
Why(w)     == IF logging THEN w ELSE ""

\* Positions at which a request goroutine has an adapter call in flight.
ConnectCalls == {"c_open", "c_fw", "c_udi", "c_load", "c_app", "c_close"}
FacadeCalls  == {"gs_app", "f_pub", "i_call"}
DeviceCalls  == ConnectCalls \cup FacadeCalls

\* What a request goroutine notes in did outside connect(): the identity
\* query of getSigner, GetPubkey and Sign.  The steps of a connect() attempt
\* are noted afresh by each attempt.
UseCalls == {"id", "pubkey", "sign"}

InCall(t) == th[t].pc # "idle"
Idle      == \A t \in Threads : ~InCall(t)

\* getSigner passes enterUSS := true (and fileUSS := "") to NewSigner.
EnterUSS == TRUE

\* s.connected, the test of connect()'s fast path.
FastPathNever(s) == FALSE
FastPath(s) == connected[s]

\* time.Timer.Stop: a timer that has not fired is removed; for one that has
\* fired, Stop returns false and the callback goroutine keeps running.
StopTimer(ts, id) ==
    IF id # 0 /\ ts[id] = "pending" THEN [ts EXCEPT ![id] = "free"] ELSE ts

\* defer s.mu.Unlock()
UnlockMissing(m, s) == m
Unlock(m, s) == [m EXCEPT ![s] = FALSE]

\* disconnect()'s early return: if !s.connected { return }
ArmsAlways(s) == TRUE
Arms(s) == connected[s]

\* connect() after s.isFirmwareMode(): in firmware mode loadApp runs, which
\* first acquires the secret when a source is configured; otherwise
\* isWantedApp is next.
FwAlwaysLoads(s, fw) == "c_load"
FwNext(s, fw) ==
    IF fw THEN (IF enterUSS[s] \/ fileUSS[s] # "" THEN "c_udi" ELSE "c_load")
          ELSE "c_app"

\* loadApp after the secret acquisition returned r: an error is returned
\* ahead of tk.LoadApp, and connect() calls closeNow().
SecretIgnored(r) == "c_load"
SecretNext(r) == IF r = "ok" THEN "c_load" ELSE "c_close"

\* The outcomes of loadApp's secret acquisition for Signer s: tk.GetUDI and
\* getSecret with enterUSS, tkeyutil.ReadUSS with a secret file.
SecretResults(s) ==
    IF enterUSS[s] THEN {"ok", "udi", "secret"} ELSE {"ok", "file"}

\* The timer callback's s.connected = false
CallbackKeepsFlag(c, s) == c
CallbackConnected(c, s) == [c EXCEPT ![s] = FALSE]

\* The lowest timer slot not in use.
FreeTimer(ts) == CHOOSE id \in Timers :
                     /\ ts[id] = "free"
                     /\ \A j \in Timers : ts[j] = "free" => id <= j

\* A slot that is not in use carries no owner and no mark.
Owners(ts, ow) == [id \in Timers |-> IF ts[id] = "free" THEN 1 ELSE ow[id]]
Marks(ts, st)  == [id \in Timers |-> IF ts[id] = "free" THEN FALSE ELSE st[id]]

\* The locals of a request goroutine that is not inside a call.
Returned == [pc |-> "idle", s |-> 0, ret |-> "gs", op |-> "pub",
             err |-> FALSE, cold |-> FALSE, did |-> {},
             hash |-> 0, why |-> "", ev |-> ""]

\* The error values the package hands to its callers.  connect() returns a
\* bool, and each caller turns false into the same fmt.Errorf("connect failed").
ConnectFailedErr == "connect failed"
NotHashedErr     == "message must not be hashed"
SignErr          == "Sign: device error"
PubkeyErr        == "GetPubkey: device error"

\* tkeyclient.DetectSerialPort: the port, or one of its errors.
DetectErrors == {"ErrNoDevice", "ErrManyDevices", "detect: other error"}

\* What the port detection found when it returned error e.
DetectCause(e) ==
    CASE e = "ErrNoDevice"    -> "nodev"
      [] e = "ErrManyDevices" -> "manydev"
      [] OTHER                -> "detect"

\* opts.HashFunc(): crypto.Hash(0), or a digest (crypto.SHA256).
Hashes == {0, 5}

\* What a returned error is logged with: what had gone wrong (why), the
\* error value (ev), the hash option of the call and whether the last connect
\* attempt had found firmware mode and issued the app load.
Entry(r, w, e) ==
    [why |-> w, ev |-> e, hash |-> r.hash,
     loaded |-> {"fwmode", "load"} \subseteq r.did]
Log(l, r, w, e) == IF logging /\ e # "" THEN l \cup {Entry(r, w, e)} ELSE l

\* A call ends because its connect() returned false: the error is logged
\* when the caller of connect() is the call itself.
LogConnect(l, r, w) ==
    IF r.ret \in {"outer", "direct"} THEN Log(l, r, w, ConnectFailedErr) ELSE l

\* A connect() of Signer s has returned true: every timer of s that is still
\* alive (it was not stopped in time) is from now on a stale one.
MarkStale(ts, s) ==
    [id \in Timers |->
        IF ts[id] = "free" THEN FALSE
        ELSE IF towner[id] = s THEN TRUE ELSE tstale[id]]

\* Where a request goroutine continues when connect() returns b.
\*   ret = "gs":    the call in getSigner's condition
\*   ret = "outer": the call in GetTkeyPubKey / Sign
\*   ret = "inner": the call in printAuthorizedKey / Signer.Sign
\*   ret = "direct": the call in a Signer.Sign that was called directly
\* After a successful connect() Signer.Sign tests opts.HashFunc().
AfterConnect(r, b) ==
    CASE r.ret = "gs" /\ b ->
            \* existingSigner.isWantedApp(): the package variable is read again
            [r EXCEPT !.pc = "gs_app", !.s = existingSigner]
      [] r.ret = "gs" /\ ~b ->
            [r EXCEPT !.pc = "gs_detect"]
      [] r.ret = "outer" /\ b /\ r.op = "pub" ->
            [r EXCEPT !.pc = "f_pub"]
      [] r.ret = "outer" /\ b /\ r.op = "sign" ->
            \* signer.Sign(nil, msg, crypto.Hash(0)) starts with s.connect()
            [r EXCEPT !.pc = "c_lock", !.ret = "inner"]
      [] r.ret = "outer" /\ ~b ->
            \* the facade returns "connect failed"
            Returned
      [] r.ret \in {"inner", "direct"} /\ b ->
            IF r.hash # 0
              THEN [r EXCEPT !.pc = "d_inner", !.err = TRUE,
                             !.why = Why("hashed"), !.ev = Why(NotHashedErr)]
              ELSE [r EXCEPT !.pc = "i_call"]
      [] r.ret = "direct" /\ ~b ->
            \* Signer.Sign returns "connect failed"
            Returned
      [] OTHER ->
            \* inner connect failed: Signer.Sign returns an error,
            \* printAuthorizedKey just returns
            [r EXCEPT !.pc = "d_outer", !.err = (r.op = "sign"),
                      !.ev = IF r.op = "sign" THEN Why(ConnectFailedErr) ELSE ""]

\* ---------------------------------------------------------------- Init
Fresh ==
    /\ th = [t \in Threads |-> Returned]
    /\ callsLeft = MaxCalls
    /\ existingSigner = 0
    /\ nSigners = 0
    /\ connected = [s \in Signers |-> FALSE]
    /\ disconnectTimer = [s \in Signers |-> 0]
    /\ mu = [s \in Signers |-> FALSE]
    /\ topen = [s \in Signers |-> FALSE]
    /\ tstate = [id \in Timers |-> "free"]
    /\ towner = [id \in Timers |-> 1]
    /\ tstale = [id \in Timers |-> FALSE]
    /\ hstate = [s \in Signers |-> "none"]
    /\ sigSent = FALSE
    /\ exited = FALSE
    /\ lastErr = FALSE
    /\ opens = 0
    /\ closes = 0
    /\ idleCloses = 0
    /\ unhealthy = FALSE
    /\ fired = FALSE
    /\ raced = FALSE
    /\ devPath = [s \in Signers |-> "port"]
    /\ enterUSS = [s \in Signers |-> EnterUSS]
    /\ fileUSS = [s \in Signers |-> ""]
    /\ errLog = {}

\* Every request goroutine may be inside a facade call at the same time.
Init == Fresh /\ par = NumThreads /\ logging = FALSE

\* The callers issue one facade call at a time.
InitSeq == Fresh /\ par = 1 /\ logging = FALSE

\* The same, with the returned errors logged.
InitDirect == Fresh /\ par = 1 /\ logging = TRUE

\* ------------------------------------------------------- facade entry
\* GetTkeyPubKey() / Sign(msg) is called; getSigner reads existingSigner and,
\* if it is not nil, calls existingSigner.connect().  Request goroutines are
\* interchangeable: the call goes to the first one that is free.
Start(t, o) ==
    /\ ~exited
    /\ th[t].pc = "idle"
    /\ callsLeft > 0
    /\ Cardinality({u \in Threads : InCall(u)}) < par
    /\ \A u \in Threads : u < t => InCall(u)
    /\ callsLeft' = callsLeft - 1
    /\ th' = [th EXCEPT ![t] =
                [pc   |-> IF existingSigner # 0 THEN "c_lock" ELSE "gs_detect",
                 s    |-> existingSigner,
                 ret  |-> "gs",
                 op   |-> o,
                 err  |-> FALSE,
                 cold |-> Recording /\ (existingSigner = 0 \/ ~connected[existingSigner]),
                 did  |-> {},
                 hash |-> 0,
                 why  |-> "",
                 ev   |-> ""]]
    /\ raced' = Flag(raced, \E id \in Timers : tstate[id] \in {"fired", "closing"})
    /\ idleCloses' = 0
    /\ UNCHANGED <<existingSigner, nSigners, sessionVars, timerVars, sigVars,
                   lastErr, opens, closes, unhealthy, fired, par, logging, configVars, errLog>>

\* ------------------------------------------------- the Signer used directly
\* NewSigner(devPathArg, speedArg, enterUSS, fileUSS, pinentry, exitFunc) is
\* called by a user of the exported type: any port (or none), any secret
\* source.  The package variable existingSigner is not involved.
NewSignerDirect(dp, e, f) ==
    /\ ~exited
    /\ Idle
    /\ nSigners < MaxSigners
    /\ nSigners' = nSigners + 1
    /\ hstate' = [hstate EXCEPT ![nSigners + 1] = "ready"]
    /\ devPath' = [devPath EXCEPT ![nSigners + 1] = dp]
    /\ enterUSS' = [enterUSS EXCEPT ![nSigners + 1] = e]
    /\ fileUSS' = [fileUSS EXCEPT ![nSigners + 1] = f]
    /\ UNCHANGED <<th, callsLeft, existingSigner, sessionVars, timerVars, sigSent,
                   exited, lastErr, histVars, par, logging, errLog>>

\* s.Sign(rand, message, opts) is called on a Signer, with opts.HashFunc() = h;
\* it starts with s.connect().
StartDirect(t, s, h) ==
    /\ ~exited
    /\ th[t].pc = "idle"
    /\ callsLeft > 0
    /\ s <= nSigners
    /\ Cardinality({u \in Threads : InCall(u)}) < par
    /\ \A u \in Threads : u < t => InCall(u)
    /\ callsLeft' = callsLeft - 1
    /\ th' = [th EXCEPT ![t] =
                [pc   |-> "c_lock",
                 s    |-> s,
                 ret  |-> "direct",
                 op   |-> "dsign",
                 err  |-> FALSE,
                 cold |-> Recording /\ ~connected[s],
                 did  |-> {},
                 hash |-> h,
                 why  |-> "",
                 ev   |-> ""]]
    /\ raced' = Flag(raced, \E id \in Timers : tstate[id] \in {"fired", "closing"})
    /\ idleCloses' = 0
    /\ UNCHANGED <<existingSigner, nSigners, sessionVars, timerVars, sigVars,
                   lastErr, opens, closes, unhealthy, fired, par, logging, configVars, errLog>>

\* ------------------------------------------------------------ connect()
\* s.mu.Lock(); stop and forget the pending timer; the fast path returns
\* true; otherwise the port is resolved: with s.devPath set tk.Connect(devPath)
\* is issued, with an empty one tkeyclient.DetectSerialPort is called first.
ConnectLock(t) ==
    LET s == th[t].s IN
    /\ ~exited
    /\ th[t].pc = "c_lock"
    /\ ~mu[s]
    /\ disconnectTimer' = [disconnectTimer EXCEPT ![s] = 0]
    /\ tstate' = StopTimer(tstate, disconnectTimer[s])
    /\ IF FastPath(s)
         THEN /\ th' = [th EXCEPT ![t] = AfterConnect(th[t], TRUE)]
              /\ tstale' = MarkStale(tstate', s)
              /\ mu' = Unlock(mu, s)
         ELSE /\ th' = [th EXCEPT ![t] =
                          IF devPath[s] # ""
                            THEN [@ EXCEPT !.pc = "c_open",
                                           !.did = Note(@ \cap UseCalls, "port")]
                            ELSE [@ EXCEPT !.pc = "c_detect",
                                           !.did = @ \cap UseCalls]]
              /\ mu' = [mu EXCEPT ![s] = TRUE]
              /\ tstale' = Marks(tstate', tstale)
    /\ towner' = Owners(tstate', towner)
    /\ UNCHANGED <<callsLeft, existingSigner, nSigners, connected, topen,
                   sigVars, lastErr, histVars, par, logging, configVars, errLog>>

\* connect() with an empty devPath: tkeyclient.DetectSerialPort returns.  On
\* an error connect() notifies, logs and returns false.
ConnectDetectRet(t) ==
    LET s == th[t].s IN
    /\ ~exited
    /\ th[t].pc = "c_detect"
    /\ \E r \in {"port"} \cup DetectErrors :
         IF r = "port"
           THEN /\ th' = [th EXCEPT ![t] =
                            [@ EXCEPT !.pc = "c_open", !.did = Note(@, "port")]]
                /\ UNCHANGED <<mu, unhealthy, lastErr, errLog>>
           ELSE /\ mu' = Unlock(mu, s)
                /\ unhealthy' = Flag(unhealthy, TRUE)
                /\ th' = [th EXCEPT ![t] =
                            AfterConnect([th[t] EXCEPT !.why = Why(DetectCause(r))], FALSE)]
                /\ lastErr' = (lastErr \/ th[t].ret \in {"outer", "direct"})
                /\ errLog' = LogConnect(errLog, th[t], DetectCause(r))
    /\ UNCHANGED <<callsLeft, existingSigner, nSigners, connected, disconnectTimer,
                   topen, timerVars, sigVars, opens, closes, idleCloses, fired,
                   raced, par, logging, configVars>>

\* s.tk.Connect returns.
ConnectOpenRet(t) ==
    LET s == th[t].s IN
    /\ ~exited
    /\ th[t].pc = "c_open"
    /\ \E ok \in BOOLEAN :
         IF ok
           THEN /\ topen' = [topen EXCEPT ![s] = TRUE]
                /\ opens' = Inc(opens)
                /\ th' = [th EXCEPT ![t] =
                            [@ EXCEPT !.pc = "c_fw", !.did = Note(@, "open")]]
                /\ UNCHANGED <<mu, unhealthy, lastErr, errLog>>
           ELSE /\ mu' = Unlock(mu, s)
                /\ unhealthy' = Flag(unhealthy, TRUE)
                /\ th' = [th EXCEPT ![t] =
                            AfterConnect([th[t] EXCEPT !.why = Why("open")], FALSE)]
                /\ lastErr' = (lastErr \/ th[t].ret \in {"outer", "direct"})
                /\ errLog' = LogConnect(errLog, th[t], "open")
                /\ UNCHANGED <<topen, opens>>
    /\ UNCHANGED <<callsLeft, existingSigner, nSigners, connected, disconnectTimer,
                   timerVars, hstate, sigSent, exited, closes, idleCloses, fired,
                   raced, par, logging, configVars>>

\* s.isFirmwareMode(): tk.GetNameVersion returns.  An error, or another
\* name, is the answer "not in firmware mode".
ConnectFwRet(t) ==
    /\ ~exited
    /\ th[t].pc = "c_fw"
    /\ \E fw \in BOOLEAN :
         th' = [th EXCEPT ![t] =
                  [@ EXCEPT !.pc  = FwNext(th[t].s, fw),
                            !.did = IF fw THEN Note(Note(@, "fw"), "fwmode")
                                          ELSE Note(@, "fw")]]
    /\ UNCHANGED <<callsLeft, existingSigner, nSigners, sessionVars, timerVars,
                   sigVars, lastErr, histVars, par, logging, configVars, errLog>>

\* loadApp acquires the secret: tk.GetUDI returns, then getSecret prompts
\* (enterUSS), or tkeyutil.ReadUSS reads the file (fileUSS); a failure of any
\* makes loadApp return an error and connect() call s.closeNow().
ConnectUdiRet(t) ==
    /\ ~exited
    /\ th[t].pc = "c_udi"
    /\ \E r \in SecretResults(th[t].s) :
         /\ th' = [th EXCEPT ![t] =
                     [@ EXCEPT !.pc = SecretNext(r),
                               !.did = Note(@, "secret"),
                               !.why = IF r = "ok" THEN "" ELSE Why(r)]]
         /\ unhealthy' = Flag(unhealthy, r # "ok")
    /\ UNCHANGED <<callsLeft, existingSigner, nSigners, sessionVars, timerVars,
                   sigVars, lastErr, opens, closes, idleCloses, fired, raced, par, logging,
                   configVars, errLog>>

\* loadApp: tk.LoadApp returns.
ConnectLoadRet(t) ==
    /\ ~exited
    /\ th[t].pc = "c_load"
    /\ \E ok \in BOOLEAN :
         /\ th' = [th EXCEPT ![t] =
                     [@ EXCEPT !.pc  = IF ok THEN "c_app" ELSE "c_close",
                               !.did = Note(@, "load"),
                               !.why = IF ok THEN @ ELSE Why("load")]]
         /\ unhealthy' = Flag(unhealthy, ~ok)
    /\ UNCHANGED <<callsLeft, existingSigner, nSigners, sessionVars, timerVars,
                   sigVars, lastErr, opens, closes, idleCloses, fired, raced, par, logging,
                   configVars, errLog>>

\* s.isWantedApp() inside connect(): tkSigner.GetAppNameVersion returns.
\* A match sets s.connected and connect() returns true (mu is unlocked).
ConnectAppRet(t) ==
    LET s == th[t].s IN
    /\ ~exited
    /\ th[t].pc = "c_app"
    /\ \E ok \in BOOLEAN :
         IF ok
           THEN /\ connected' = [connected EXCEPT ![s] = TRUE]
                /\ mu' = Unlock(mu, s)
                /\ tstale' = MarkStale(tstate, s)
                /\ th' = [th EXCEPT ![t] =
                            AfterConnect([th[t] EXCEPT !.did = Note(@, "app")], TRUE)]
                /\ UNCHANGED unhealthy
           ELSE /\ th' = [th EXCEPT ![t] =
                            [@ EXCEPT !.pc = "c_close", !.why = Why("wrongapp")]]
                /\ unhealthy' = Flag(unhealthy, TRUE)
                /\ UNCHANGED <<connected, mu, tstale>>
    /\ UNCHANGED <<callsLeft, existingSigner, nSigners, disconnectTimer, topen,
                   tstate, towner, sigVars, lastErr, opens, closes, idleCloses, fired,
                   raced, par, logging, configVars, errLog>>

\* s.closeNow() on connect()'s failure paths: tkSigner.Close returns, then
\* connect() returns false.
ConnectCloseRet(t) ==
    LET s == th[t].s IN
    /\ ~exited
    /\ th[t].pc = "c_close"
    /\ topen' = [topen EXCEPT ![s] = FALSE]
    /\ closes' = Inc(closes)
    /\ mu' = Unlock(mu, s)
    /\ th' = [th EXCEPT ![t] = AfterConnect(th[t], FALSE)]
    /\ lastErr' = (lastErr \/ th[t].ret \in {"outer", "direct"})
    /\ errLog' = LogConnect(errLog, th[t], th[t].why)
    /\ UNCHANGED <<callsLeft, existingSigner, nSigners, connected, disconnectTimer,
                   timerVars, sigVars, opens, idleCloses, unhealthy, fired, raced, par, logging,
                   configVars>>

\* ----------------------------------------------------------- getSigner
\* existingSigner.isWantedApp() in getSigner's condition returns (mu is not
\* held).  On a match getSigner returns existingSigner (read once more) and
\* the facade calls signer.connect().
GsAppRet(t) ==
    /\ ~exited
    /\ th[t].pc = "gs_app"
    /\ \E ok \in BOOLEAN :
         /\ th' = [th EXCEPT ![t] =
                     IF ok THEN [@ EXCEPT !.pc = "c_lock", !.ret = "outer",
                                          !.s = existingSigner,
                                          !.did = Note(@, "id")]
                           ELSE [@ EXCEPT !.pc = "gs_detect",
                                          !.did = Note(@, "id")]]
         /\ unhealthy' = Flag(unhealthy, ~ok)
    /\ UNCHANGED <<callsLeft, existingSigner, nSigners, sessionVars, timerVars,
                   sigVars, lastErr, opens, closes, idleCloses, fired, raced, par, logging,
                   configVars, errLog>>

\* tkeyclient.DetectSerialPort returns.  On an error getSigner returns it
\* unchanged and the facade call ends.  Otherwise NewSigner allocates a
\* Signer for the detected port (enterUSS := true, fileUSS := ""), starts its
\* signal goroutine, and the Signer replaces existingSigner; the facade then
\* calls signer.connect().
GsDetect(t) ==
    /\ ~exited
    /\ th[t].pc = "gs_detect"
    /\ \/ /\ nSigners < MaxSigners
          /\ nSigners' = nSigners + 1
          /\ existingSigner' = nSigners + 1
          /\ hstate' = [hstate EXCEPT ![nSigners + 1] = "ready"]
          /\ devPath' = [devPath EXCEPT ![nSigners + 1] = "port"]
          /\ enterUSS' = [enterUSS EXCEPT ![nSigners + 1] = EnterUSS]
          /\ fileUSS' = [fileUSS EXCEPT ![nSigners + 1] = ""]
          /\ th' = [th EXCEPT ![t] =
                      [@ EXCEPT !.pc = "c_lock", !.ret = "outer", !.s = nSigners + 1,
                                !.why = ""]]
          /\ UNCHANGED <<unhealthy, lastErr, errLog>>
       \/ /\ th' = [th EXCEPT ![t] = Returned]
          /\ unhealthy' = Flag(unhealthy, TRUE)
          /\ lastErr' = TRUE
          /\ \E e \in DetectErrors :
                errLog' = Log(errLog, th[t], DetectCause(e), e)
          /\ UNCHANGED <<nSigners, existingSigner, hstate, configVars>>
    /\ UNCHANGED <<callsLeft, sessionVars, timerVars, sigSent, exited,
                   opens, closes, idleCloses, fired, raced, par, logging>>

\* ------------------------------------------------- the device operation
\* GetTkeyPubKey: signer.tkSigner.GetPubkey returns (mu is not held).  On
\* success printAuthorizedKey is called, which starts with s.connect().
FPubRet(t) ==
    /\ ~exited
    /\ th[t].pc = "f_pub"
    /\ \E ok \in BOOLEAN :
         /\ th' = [th EXCEPT ![t] =
                     IF ok THEN [@ EXCEPT !.pc = "c_lock", !.ret = "inner",
                                          !.did = Note(@, "pubkey")]
                           ELSE [@ EXCEPT !.pc = "d_outer", !.err = TRUE,
                                          !.did = Note(@, "pubkey"),
                                          !.why = Why("pubkey"),
                                          !.ev = Why(PubkeyErr)]]
         /\ unhealthy' = Flag(unhealthy, ~ok)
    /\ UNCHANGED <<callsLeft, existingSigner, nSigners, sessionVars, timerVars,
                   sigVars, lastErr, opens, closes, idleCloses, fired, raced, par, logging,
                   configVars, errLog>>

\* Signer.Sign: tkSigner.Sign returns; printAuthorizedKey: tkSigner.GetPubkey
\* returns (mu is not held).  The deferred s.disconnect() is next.
ICallRet(t) ==
    /\ ~exited
    /\ th[t].pc = "i_call"
    /\ \E ok \in BOOLEAN :
         /\ th' = [th EXCEPT ![t] =
                     [@ EXCEPT !.pc = "d_inner",
                               !.err = (th[t].op # "pub" /\ ~ok),
                               !.did = Note(@, IF th[t].op = "pub" THEN "pubkey"
                                                                   ELSE "sign"),
                               !.why = IF th[t].op # "pub" /\ ~ok THEN Why("sign") ELSE @,
                               !.ev  = IF th[t].op # "pub" /\ ~ok THEN Why(SignErr) ELSE @]]
         /\ unhealthy' = Flag(unhealthy, ~ok)
    /\ UNCHANGED <<callsLeft, existingSigner, nSigners, sessionVars, timerVars,
                   sigVars, lastErr, opens, closes, idleCloses, fired, raced, par, logging,
                   configVars, errLog>>

\* ----------------------------------------------------------- disconnect()
\* s.mu.Lock(); return if not connected; stop the armed timer and arm a new
\* one with time.AfterFunc(idleDisconnect, ...); unlock.  The inner deferred
\* disconnect is followed by the facade's own; after that the call returns
\* (a Signer.Sign called directly returns after its own).
Disconnect(t) ==
    LET s == th[t].s IN
    /\ ~exited
    /\ th[t].pc \in {"d_inner", "d_outer"}
    /\ ~mu[s]
    /\ IF Arms(s)
         THEN LET stopped == StopTimer(tstate, disconnectTimer[s])
                  new == FreeTimer(stopped)
              IN  /\ \E id \in Timers : stopped[id] = "free"
                  /\ tstate' = [stopped EXCEPT ![new] = "pending"]
                  /\ towner' = [Owners(stopped, towner) EXCEPT ![new] = s]
                  /\ tstale' = [Marks(stopped, tstale) EXCEPT ![new] = FALSE]
                  /\ disconnectTimer' = [disconnectTimer EXCEPT ![s] = new]
         ELSE UNCHANGED <<timerVars, disconnectTimer>>
    /\ LET last == th[t].pc = "d_outer" \/ th[t].ret = "direct" IN
         /\ th' = [th EXCEPT ![t] =
                     IF last THEN Returned ELSE [@ EXCEPT !.pc = "d_outer"]]
         /\ lastErr' = IF last THEN th[t].err ELSE lastErr
         /\ errLog' = IF last THEN Log(errLog, th[t], th[t].why, th[t].ev) ELSE errLog
    /\ UNCHANGED <<callsLeft, existingSigner, nSigners, connected, mu, topen,
                   sigVars, histVars, par, logging, configVars>>

\* ------------------------------------------------ idle-disconnect timer
\* The delay has elapsed: the runtime starts the callback in its own
\* goroutine.  From here on Stop() has no effect on it.
TimerFire(id) ==
    /\ ~exited
    /\ tstate[id] = "pending"
    /\ tstate' = [tstate EXCEPT ![id] = "fired"]
    /\ fired' = Flag(fired, TRUE)
    /\ raced' = Flag(raced, ~Idle)
    /\ UNCHANGED <<th, callsLeft, existingSigner, nSigners, sessionVars, towner,
                   tstale, sigVars, lastErr, opens, closes, idleCloses, unhealthy, par, logging,
                   configVars, errLog>>

\* The callback takes s.mu and calls s.closeNow().
TimerLock(id) ==
    /\ ~exited
    /\ tstate[id] = "fired"
    /\ ~mu[towner[id]]
    /\ mu' = [mu EXCEPT ![towner[id]] = TRUE]
    /\ tstate' = [tstate EXCEPT ![id] = "closing"]
    /\ UNCHANGED <<th, callsLeft, existingSigner, nSigners, connected,
                   disconnectTimer, topen, towner, tstale, sigVars, lastErr, histVars, par, logging,
                   configVars, errLog>>

\* tkSigner.Close returns; s.connected = false; s.disconnectTimer = nil;
\* the deferred Unlock runs.
TimerRet(id) ==
    LET s == towner[id] IN
    /\ ~exited
    /\ tstate[id] = "closing"
    /\ topen' = [topen EXCEPT ![s] = FALSE]
    /\ connected' = CallbackConnected(connected, s)
    /\ disconnectTimer' = [disconnectTimer EXCEPT ![s] = 0]
    /\ mu' = Unlock(mu, s)
    /\ tstate' = [tstate EXCEPT ![id] = "free"]
    /\ towner' = Owners(tstate', towner)
    /\ tstale' = Marks(tstate', tstale)
    /\ closes' = Inc(closes)
    /\ idleCloses' = IF Idle THEN Inc(idleCloses) ELSE idleCloses
    /\ UNCHANGED <<th, callsLeft, existingSigner, nSigners, sigVars, lastErr,
                   opens, unhealthy, fired, raced, par, logging, configVars, errLog>>

\* -------------------------------------------------------------- signals
\* os.Interrupt / SIGTERM arrives.  signal.Notify hands it to the channel of
\* every Signer's goroutine (NewSigner registers one per Signer); each one
\* runs signer.closeNow(), which takes no lock, and then exitFunc.  With no
\* Signer yet nothing is registered and the runtime ends the process.
Signal ==
    /\ ~exited
    /\ ~sigSent
    /\ sigSent' = TRUE
    /\ IF nSigners = 0
         THEN exited' = TRUE /\ UNCHANGED hstate
         ELSE /\ hstate' = [s \in Signers |->
                              IF hstate[s] = "ready" THEN "closing" ELSE hstate[s]]
              /\ UNCHANGED exited
    /\ UNCHANGED <<th, callsLeft, existingSigner, nSigners, sessionVars, timerVars,
                   lastErr, histVars, par, logging, configVars, errLog>>

\* The handler's closeNow: tkSigner.Close returns.
HandlerCloseRet(s) ==
    /\ ~exited
    /\ hstate[s] = "closing"
    /\ hstate' = [hstate EXCEPT ![s] = "exit"]
    /\ topen' = [topen EXCEPT ![s] = FALSE]
    /\ closes' = Inc(closes)
    /\ idleCloses' = IF Idle THEN Inc(idleCloses) ELSE idleCloses
    /\ UNCHANGED <<th, callsLeft, existingSigner, nSigners, connected,
                   disconnectTimer, mu, timerVars, sigSent, exited, lastErr,
                   opens, unhealthy, fired, raced, par, logging, configVars, errLog>>

\* exitFunc(1): getSigner's exit closure calls os.Exit(0).
HandlerExit(s) ==
    /\ ~exited
    /\ hstate[s] = "exit"
    /\ exited' = TRUE
    /\ UNCHANGED <<th, callsLeft, existingSigner, nSigners, sessionVars, timerVars,
                   hstate, sigSent, lastErr, histVars, par, logging, configVars, errLog>>

\* ----------------------------------------------------------------- Next
ThreadStep(t) ==
    \/ ConnectLock(t)
    \/ ConnectOpenRet(t)
    \/ ConnectFwRet(t)
    \/ ConnectUdiRet(t)
    \/ ConnectLoadRet(t)
    \/ ConnectAppRet(t)
    \/ ConnectCloseRet(t)
    \/ GsAppRet(t)
    \/ GsDetect(t)
    \/ FPubRet(t)
    \/ ICallRet(t)
    \/ Disconnect(t)

TimerStep(id) == TimerLock(id) \/ TimerRet(id)

Next ==
    \/ \E t \in Threads, o \in Ops : Start(t, o)
    \/ \E t \in Threads : ThreadStep(t)
    \/ \E id \in Timers : TimerFire(id)
    \/ \E id \in Timers : TimerStep(id)
    \/ Signal
    \/ \E s \in Signers : HandlerCloseRet(s)
    \/ \E s \in Signers : HandlerExit(s)

Spec == Init /\ [][Next]_vars

\* The program while no interrupt / termination signal arrives.
NextSeq ==
    \/ \E t \in Threads, o \in Ops : Start(t, o)
    \/ \E t \in Threads : ThreadStep(t)
    \/ \E id \in Timers : TimerFire(id)
    \/ \E id \in Timers : TimerStep(id)

SpecSeq == InitSeq /\ [][NextSeq]_vars

\* The package used through the facade and through the exported Signer as
\* well (NewSigner with any configuration, Signer.Sign with any options), one
\* call at a time, while no signal arrives.
NextDirect ==
    \/ NextSeq
    \/ \E dp \in {"", "port"}, e \in BOOLEAN, f \in {"", "uss-file"} :
          NewSignerDirect(dp, e, f)
    \/ \E t \in Threads, s \in Signers, h \in Hashes : StartDirect(t, s, h)
    \/ \E t \in Threads : ConnectDetectRet(t)

SpecDirect == InitDirect /\ [][NextDirect]_vars

TypeOK ==
    /\ callsLeft \in 0..MaxCalls
    /\ existingSigner \in 0..MaxSigners
    /\ nSigners \in 0..MaxSigners
    /\ \A t \in Threads : th[t].s \in 0..MaxSigners
    /\ \A s \in Signers : disconnectTimer[s] \in 0..MaxTimers
    /\ \A s \in Signers : devPath[s] \in {"", "port"} /\ enterUSS[s] \in BOOLEAN
    /\ \A t \in Threads : th[t].hash \in Hashes
    /\ \A e \in errLog : e.hash \in Hashes /\ e.ev # ""
    /\ ~logging => errLog = {}
\* ================================================================ claims

\* Adapter calls in flight that the facade's callers and the idle timers
\* have issued (the signal goroutines are left out).
InFlight ==
    Cardinality({t \in Threads : th[t].pc \in DeviceCalls})
      + Cardinality({id \in Timers : tstate[id] = "closing"})

\* C1: with concurrent callers of GetTkeyPubKey / Sign the transport adapter
\* never has two device calls in flight at the same time.
C1_Serialized == InFlight <= 1

\* C2: once connect() has returned success, no timer armed before that
\* connect() closes the transport or clears the connected flag: a timer
\* callback that is inside its critical section is never a stale one.
C2_NoStaleTimerCloses ==
    \A id \in Timers : tstate[id] = "closing" => ~tstale[id]

\* C5: a facade call that returns an error leaves the session it used in the
\* Disconnected state: connected flag false and transport closed.
C5_FailureLeavesDisconnected ==
    [][\A t \in Threads :
          (InCall(t) /\ th'[t].pc = "idle" /\ lastErr' /\ th[t].s # 0)
             => (~connected'[th[t].s] /\ ~topen'[th[t].s])]_vars

\* C6: when the process terminates on a signal, the transport of the live
\* session (the one existingSigner refers to) has been closed.
C6_ClosedBeforeExit ==
    (exited /\ existingSigner # 0) => ~topen[existingSigner]

\* C7: the forced close of the signal handler never runs while a connect()
\* on the same Signer is between its open of the transport and its return.
C7_ForcedCloseOutsideConnect ==
    \A s \in Signers : hstate[s] = "closing" =>
        ~\E t \in Threads :
            th[t].s = s /\ th[t].pc \in (ConnectCalls \ {"c_open"})

\* C8: never two Signer instances that are both marked connected, or that
\* both hold an open transport.
C8_OneLiveSession ==
    \A s1, s2 \in Signers :
        s1 # s2 => /\ ~(connected[s1] /\ connected[s2])
                   /\ ~(topen[s1] /\ topen[s2])

\* C10: whenever the session guard is not held, the connected flag and the
\* state of the transport agree (both set, or both clear).
C10_NoHalfConnected ==
    \A s \in Signers : ~mu[s] => (connected[s] <=> topen[s])

\* The same without any signal having been delivered.
HalfConnectedNeedsSignal ==
    ~sigSent => C10_NoHalfConnected
\* No timer of Signer s is pending or running.
NoLiveTimer(s) ==
    \A id \in Timers : tstate[id] # "free" => towner[id] # s

\* C3: for facade calls issued one after another, each before any idle
\* timer has fired, on a healthy device (no adapter call fails), the
\* transport is opened at most once and never closed.
C3_SingleConnection ==
    (~unhealthy /\ ~fired) => (opens <= 1 /\ closes = 0)

\* Every call of the run was made, on one connection.
C3_Witness ==
    /\ callsLeft = 0 /\ Idle
    /\ ~unhealthy /\ ~fired
    /\ opens = 1 /\ closes = 0

\* C4: after a successful facade call, when the idle timer fires and its
\* callback runs with no facade call in progress, the transport is closed
\* exactly once and the session is marked disconnected; a facade call that
\* starts on a disconnected session performs open, the firmware-identity
\* query and the app-identity check before its first use of the device.
C4_IdleDisconnect ==
    /\ (Idle /\ ~raced) =>
          /\ idleCloses <= 1
          /\ idleCloses = 1 =>
                /\ existingSigner # 0
                /\ ~connected[existingSigner]
                /\ ~topen[existingSigner]
                /\ NoLiveTimer(existingSigner)
          /\ (callsLeft < MaxCalls /\ ~lastErr /\ NoLiveTimer(existingSigner))
                => idleCloses = 1
    /\ \A t \in Threads :
          (th[t].cold /\ ~raced /\ th[t].pc \in FacadeCalls)
             => {"open", "fw", "app"} \subseteq th[t].did

\* A call after an idle disconnect has reconnected and is using the device.
C4_Witness ==
    \E t \in Threads :
        /\ th[t].pc \in FacadeCalls /\ th[t].cold
        /\ ~raced /\ ~unhealthy
        /\ closes = 1 /\ opens = 2
        /\ {"open", "fw", "app"} \subseteq th[t].did

\* Scheduling: a goroutine that can take a step eventually takes one (request
\* goroutines, timer callbacks that have started, signal goroutines).  When
\* a timer fires and when calls and signals arrive is left open.
Fairness ==
    /\ \A t \in Threads : WF_vars(ThreadStep(t))
    /\ \A id \in Timers : WF_vars(TimerStep(id))
    /\ \A s \in Signers : WF_vars(HandlerCloseRet(s)) /\ WF_vars(HandlerExit(s))

FairSpec == Init /\ [][Next]_vars /\ Fairness

\* C9: every facade call that has started returns, unless the process exits
\* on a signal first; no interleaving leaves a goroutine waiting for the
\* session guard forever.
C9_CallsReturn ==
    \A t \in Threads : InCall(t) ~> (~InCall(t) \/ exited)

\* Two Sign calls in progress at once, one of them waiting for the session
\* guard, which the callback of a fired idle timer holds.
C9_Witness ==
    /\ \A t \in Threads : InCall(t) /\ th[t].op = "sign"
    /\ \E id \in Timers, t \in Threads :
          /\ tstate[id] = "closing"
          /\ th[t].s = towner[id]
          /\ th[t].pc \in {"c_lock", "d_inner", "d_outer"}

\* C11: a Signer.Sign called with opts.HashFunc() different from 0 never
\* issues the device sign call, and the error it returns is the precondition
\* error, whatever the state of the session was.
C11_HashedRejected ==
    [][\A t \in Threads :
          th[t].hash # 0 =>
             /\ th'[t].pc # "i_call"
             /\ th'[t].pc = "idle" =>
                   /\ lastErr'
                   /\ \A e \in errLog' : e.hash # 0 => e.ev = NotHashedErr]_vars

\* The part of it that does not depend on connect(): no device sign call is
\* issued for such a request, and every such request returns an error.
HashedNeverSigns ==
    [][\A t \in Threads :
          th[t].hash # 0 =>
             /\ th'[t].pc # "i_call"
             /\ th'[t].pc = "idle" => lastErr']_vars

\* An error that was returned for a discovery failure names the failure.
Identifies(e) ==
    /\ e.why = "nodev" => e.ev = "ErrNoDevice"
    /\ e.why = "manydev" => e.ev = "ErrManyDevices"

\* C12: when the port has to be discovered and the discovery reports no
\* device, or several, the call fails with no transport opened, and the
\* error the caller gets tells which of the two it was; in connect() as in
\* getSigner.
C12_DiscoveryErrors ==
    [][\A t \in Threads :
          (th[t].pc \in {"c_detect", "gs_detect"} /\ th'[t].pc = "idle")
             => /\ topen' = topen
                /\ \A e \in errLog' : Identifies(e)]_vars

\* The same for getSigner alone, which returns the error of the discovery.
DiscoveryThroughGetSigner ==
    [][\A t \in Threads :
          (th[t].pc = "gs_detect" /\ th'[t].pc = "idle")
             => /\ topen' = topen
                /\ \E x \in DetectErrors :
                      Entry(th[t], DetectCause(x), x) \in errLog']_vars

\* The connect() attempt that r records found the device in firmware mode,
\* loaded the app, and the identity check after the load did not match.
WrongAppAfterLoad(r) ==
    r.why = "wrongapp" /\ {"fwmode", "load"} \subseteq r.did

\* The same, of a logged error.
LoggedWrongApp(e) == e.why = "wrongapp" /\ e.loaded

\* connect() returns from such an attempt with the transport closed and the
\* session not marked connected.
WrongAppClosesTransport ==
    [][\A t \in Threads :
          (th[t].pc = "c_close" /\ WrongAppAfterLoad(th[t]) /\ th'[t].pc # "c_close")
             => (~topen'[th[t].s] /\ ~connected'[th[t].s])]_vars

\* C13: when the device was in firmware mode, the app load succeeded and the
\* identity check after it does not match, connect fails with the transport
\* closed and the session not connected, and the error the caller gets is
\* a value no other kind of failure produces.
C13_WrongApplication ==
    [][/\ \A t \in Threads :
             (th[t].pc = "c_close" /\ WrongAppAfterLoad(th[t]) /\ th'[t].pc # "c_close")
                => (~topen'[th[t].s] /\ ~connected'[th[t].s])
       /\ \A e, f \in errLog' :
             (LoggedWrongApp(e) /\ f.why # "wrongapp") => e.ev # f.ev]_vars

\* The device queries of a facade call: the firmware-identity query, the
\* app-identity query of connect() and the one of getSigner.
IdentityQueries == {"fw", "app", "id"}

\* C14: a GetTkeyPubKey call that finds the session connected, with no idle
\* timer fired and a healthy device, issues no firmware-identity query and
\* no app-identity query: get-public-key is its only device call.
C14_FastPathNoQueries ==
    \A t \in Threads :
        (th[t].op = "pub" /\ th[t].ret # "direct" /\ InCall(t)
            /\ ~th[t].cold /\ ~fired /\ ~unhealthy)
           => /\ th[t].did \cap IdentityQueries = {}
              /\ th[t].did \subseteq {"pubkey"}

\* connect() itself issues none on its fast path: the queries of such a call
\* are the one of getSigner only.
FastPathConnectNoQueries ==
    \A t \in Threads :
        (InCall(t) /\ ~th[t].cold /\ ~fired /\ ~unhealthy)
           => th[t].did \subseteq UseCalls

\* The positions of a request goroutine inside a connect() attempt that
\* started from the disconnected state, and the steps of the attempt that a
\* goroutine has behind it.
ConnectPcs == ConnectCalls \cup {"c_detect"}
Steps(t) == th[t].did \ UseCalls

\* Each step of an attempt has exactly the steps before it behind it.
ConnectOrder ==
    \A t \in Threads :
        LET s == th[t].s
            secret == IF enterUSS[s] \/ fileUSS[s] # "" THEN {"secret"} ELSE {}
        IN
        /\ th[t].pc = "c_detect" => Steps(t) = {}
        /\ th[t].pc = "c_open" => Steps(t) = {"port"}
        /\ th[t].pc = "c_fw" => Steps(t) = {"port", "open"}
        /\ th[t].pc = "c_udi" =>
              /\ Steps(t) = {"port", "open", "fw", "fwmode"}
              /\ secret # {}
        /\ th[t].pc = "c_load" =>
              Steps(t) = {"port", "open", "fw", "fwmode"} \cup secret
        /\ th[t].pc = "c_app" =>
              \/ Steps(t) = {"port", "open", "fw"}
              \/ Steps(t) = {"port", "open", "fw", "fwmode", "load"} \cup secret

SecretFailures == {"udi", "secret", "file"}

\* C16: when acquiring the secret fails (reading the device identifier
\* included), no load-app call is issued for that connect() attempt, the
\* transport is closed, connect() returns false and the session is not
\* connected.
C16_SecretFailureAborts ==
    [][\A t \in Threads :
          th[t].why \in SecretFailures =>
             /\ th'[t].pc # "c_load"
             /\ "load" \notin th'[t].did
             /\ (th[t].pc \in ConnectPcs /\ th'[t].pc \notin ConnectPcs) =>
                   /\ th[t].pc = "c_close"
                   /\ th'[t] = AfterConnect(th[t], FALSE)
                   /\ ~topen'[th[t].s]
                   /\ ~connected'[th[t].s]]_vars

\* Two calls have failed, one at the prompt for the secret and one at the
\* secret file, and nothing is open or connected.
C16_Witness ==
    /\ Idle
    /\ \E e, f \in errLog :
          /\ e.why = "secret" /\ f.why = "file"
          /\ ~e.loaded /\ ~f.loaded
    /\ \A s \in Signers : ~topen[s] /\ ~connected[s]

\* The timers of Signer s that are armed and have not fired.
Pending(s) == {id \in Timers : tstate[id] = "pending" /\ towner[id] = s}

\* C17: a Signer has at most one idle-disconnect timer armed and not yet
\* fired, and disconnectTimer refers to it.
C17_OnePendingTimer ==
    \A s \in Signers :
        /\ Cardinality(Pending(s)) <= 1
        /\ \A id \in Pending(s) : disconnectTimer[s] = id

\* The first half alone: never two timers pending for one Signer.
NeverTwoPending ==
    \A s \in Signers : Cardinality(Pending(s)) <= 1

\* C18: whenever the session guard is not held, a Signer whose
\* disconnectTimer is not nil is marked connected.
C18_TimerImpliesConnected ==
    \A s \in Signers : (~mu[s] /\ disconnectTimer[s] # 0) => connected[s]

\* A timer is armed on a connected session while the callback of an older
\* timer of the same Signer, which Stop() came too late for, waits for the
\* guard.
C18_Witness ==
    \E s \in Signers, id \in Timers :
        /\ ~mu[s] /\ disconnectTimer[s] # 0 /\ connected[s]
        /\ tstate[disconnectTimer[s]] = "pending"
        /\ tstate[id] = "fired" /\ towner[id] = s

\* C19: whenever no facade call is in progress, every Signer that is marked
\* connected has an idle-disconnect timer that will close it.
C19_ConnectedHasTimer ==
    Idle => \A s \in Signers : connected[s] => ~NoLiveTimer(s)
====
